---- MODULE Spec2Model ----
(***************************************************************************)
(* A model of the PDF outline extractor of src/main.py: the batch loop     *)
(* (main), PDFOutlineExtractor.process_pdf and the stages it runs: title   *)
(* detection, the font-size -> level map, the boilerplate filter, the line *)
(* assembler, the heading rule engine and the outline normalization pass.  *)
(*                                                                         *)
(* Units.  Font sizes and page coordinates are integers in hundredths of a *)
(* point (font sizes are round(size, 2) in the source), so 10.0pt is 1000  *)
(* and the 0.1pt tolerance is 10; sizes are compared in exact decimal      *)
(* arithmetic.  Texts are strings over ASCII; a regular                    *)
(* expression of the source is a value built with the constructors below   *)
(* and matched by Ends.                                                     *)
(***************************************************************************)
EXTENDS Integers, Sequences, FiniteSets, TLC

(***************************************************************************)
(* Strings (str methods of Python used by the source)                      *)
(***************************************************************************)
\* Python's None: for a level, for a font size and for a bounding box
None == "None"

NoSize == 0 - 1

NoBBox == <<>>

CharAt(s, i) == SubSeq(s, i, i)

Abs(x) == IF x < 0 THEN -x ELSE x

Digit == {"0", "1", "2", "3", "4", "5", "6", "7", "8", "9"}

UpperAlpha == "ABCDEFGHIJKLMNOPQRSTUVWXYZ"

LowerAlpha == "abcdefghijklmnopqrstuvwxyz"

UpperSet == {CharAt(UpperAlpha, i) : i \in 1..26}

LowerSet == {CharAt(LowerAlpha, i) : i \in 1..26}

Space == {" "}

\* every character but a newline: what '.' matches
AnyChar ==
    Digit \cup UpperSet \cup LowerSet \cup Space
    \cup {".", ",", ":", "(", ")", "-", "*", "@", "/"}

LowerChar(c) ==
    IF c \in UpperSet
    THEN CharAt(LowerAlpha, CHOOSE i \in 1..26 : CharAt(UpperAlpha, i) = c)
    ELSE c

UpperChar(c) ==
    IF c \in LowerSet
    THEN CharAt(UpperAlpha, CHOOSE i \in 1..26 : CharAt(LowerAlpha, i) = c)
    ELSE c

RECURSIVE Lower(_)
\* str.lower()
Lower(s) == IF s = "" THEN "" ELSE LowerChar(CharAt(s, 1)) \o Lower(SubSeq(s, 2, Len(s)))

RECURSIVE Upper(_)
\* str.upper()
Upper(s) == IF s = "" THEN "" ELSE UpperChar(CharAt(s, 1)) \o Upper(SubSeq(s, 2, Len(s)))

RECURSIVE LStrip(_)
LStrip(s) == IF s # "" /\ CharAt(s, 1) \in Space THEN LStrip(SubSeq(s, 2, Len(s))) ELSE s

RECURSIVE RStrip(_)
RStrip(s) == IF s # "" /\ CharAt(s, Len(s)) \in Space THEN RStrip(SubSeq(s, 1, Len(s) - 1)) ELSE s

\* str.strip()
Strip(s) == RStrip(LStrip(s))

\* str.endswith(c) for a one-character c
EndsWith(s, c) == s # "" /\ CharAt(s, Len(s)) = c

\* len(s.split()): the number of maximal runs of non-whitespace
WordCount(s) ==
    Cardinality({i \in 1..Len(s) :
        /\ CharAt(s, i) \notin Space
        /\ (i = 1 \/ CharAt(s, i - 1) \in Space)})

\* s.find(c) for a one-character c, as a 1-based position; 0 when absent (-1 in Python)
Find(s, c) ==
    IF \E i \in 1..Len(s) : CharAt(s, i) = c
    THEN CHOOSE i \in 1..Len(s) : CharAt(s, i) = c /\ \A j \in 1..(i - 1) : CharAt(s, j) # c
    ELSE 0

RECURSIVE JoinSpace(_)
\* " ".join(parts)
JoinSpace(parts) ==
    IF Len(parts) = 0 THEN ""
    ELSE IF Len(parts) = 1 THEN parts[1]
    ELSE parts[1] \o " " \o JoinSpace(Tail(parts))

RECURSIVE Concat(_)
\* "".join(parts)
Concat(parts) == IF Len(parts) = 0 THEN "" ELSE parts[1] \o Concat(Tail(parts))

\* s.split('.'): the pieces between the dots (empty pieces kept)
SplitDotCount(s) == 1 + Cardinality({i \in 1..Len(s) : CharAt(s, i) = "."})

(***************************************************************************)
(* Regular expressions (module re).  A pattern is a tuple; Ends(r, s, from) *)
(* is the set of positions at which a match of r that starts at a position  *)
(* of `from` can end (a position p stands before character p).              *)
(***************************************************************************)
In(set) == <<"in", set>>

Lit(str) == <<"lit", str>>

Cat(rs) == <<"cat", rs>>

Alt(rs) == <<"alt", rs>>

Star(r) == <<"star", r>>

Plus(r) == <<"cat", <<r, <<"star", r>>>>>>

Opt(r) == <<"alt", <<r, <<"lit", "">>>>>>

RECURSIVE Ends(_, _, _)
Ends(r, s, from) ==
    IF from = {} THEN {}
    ELSE CASE r[1] = "in" ->
             {p + 1 : p \in {q \in from : q <= Len(s) /\ CharAt(s, q) \in r[2]}}
      [] r[1] = "lit" ->
             {p + Len(r[2]) : p \in {q \in from :
                 q + Len(r[2]) - 1 <= Len(s) /\ SubSeq(s, q, q + Len(r[2]) - 1) = r[2]}}
      [] r[1] = "cat" ->
             IF Len(r[2]) = 0 THEN from
             ELSE Ends(<<"cat", Tail(r[2])>>, s, Ends(r[2][1], s, from))
      [] r[1] = "alt" ->
             UNION {Ends(r[2][k], s, from) : k \in 1..Len(r[2])}
      [] r[1] = "star" ->
             LET step == Ends(r[2], s, from) \ from
             IN  from \cup Ends(r, s, step)

\* re.match(r, s): a match at the start of s
ReMatch(r, s) == Ends(r, s, {1}) # {}

\* re.fullmatch(r, s), and re.match / re.search of a pattern anchored by ^ and $
ReFullMatch(r, s) == (Len(s) + 1) \in Ends(r, s, {1})

\* re.search(r, s): a match anywhere in s
ReSearch(r, s) == Ends(r, s, 1..(Len(s) + 1)) # {}

reD == In(Digit)

reS == In(Space)

reAny == In(AnyChar)

(***************************************************************************)
(* The patterns of identify_headings, in source order.  Classes of the     *)
(* source that hold non-ASCII characters (the dashes of line 209, the      *)
(* bullet of line 269) are given by their ASCII members.                   *)
(***************************************************************************)
\* r'http[s]?://|www\.|@'
UrlPattern == Alt(<<Cat(<<Lit("http"), Opt(Lit("s")), Lit("://")>>), Lit("www."), Lit("@")>>)

\* r'^[a-z]+\.[a-z]+@'
EmailLikePattern == Cat(<<Plus(In(LowerSet)), Lit("."), Plus(In(LowerSet)), Lit("@")>>)

\* r'department of|university|institute|college'
AffiliationPattern ==
    Alt(<<Lit("department of"), Lit("university"), Lit("institute"), Lit("college")>>)

\* r'^[a-z]\.[a-z]\. [a-z]+$'
InitialsPattern == Cat(<<In(LowerSet), Lit("."), In(LowerSet), Lit(". "), Plus(In(LowerSet))>>)

\* r'res math sci|journal of|proceedings of|math sci'
JournalPattern ==
    Alt(<<Lit("res math sci"), Lit("journal of"), Lit("proceedings of"), Lit("math sci")>>)

\* r'h\. t\. h[a...], a\. van tuyl'
AuthorPattern == Cat(<<Lit("h. t. h"), In({"a"}), Lit(", a. van tuyl")>>)

\* r'^\s*[\d\s\.\-...]+\s*$'
PureSymbolsPattern ==
    Cat(<<Star(reS), Plus(In(Digit \cup Space \cup {".", "-"})), Star(reS)>>)

\* r'^\s*page\s+\d+\s+of\s+\d+\s*$'
PageOfPattern ==
    Cat(<<Star(reS), Lit("page"), Plus(reS), Plus(reD), Plus(reS), Lit("of"), Plus(reS),
          Plus(reD), Star(reS)>>)

\* r'^\d+\s+page\s+\d+\s+of\s+\d+$'
NumPageOfPattern ==
    Cat(<<Plus(reD), Plus(reS), Lit("page"), Plus(reS), Plus(reD), Plus(reS), Lit("of"),
          Plus(reS), Plus(reD)>>)

\* r'^\d+\s*:\s*\d+$'
ClockPattern == Cat(<<Plus(reD), Star(reS), Lit(":"), Star(reS), Plus(reD)>>)

\* r'^\d+$'
DigitsPattern == Plus(reD)

\* r'^\s*[a-z]\d+:\s*$'
TagColonPattern == Cat(<<Star(reS), In(LowerSet), Plus(reD), Lit(":"), Star(reS)>>)

\* r'^\s*[0-9\(\)\.,\-\...:]+\s*$'
SymbolRunPattern ==
    Cat(<<Star(reS), Plus(In(Digit \cup {"(", ")", ".", ",", "-", ":"})), Star(reS)>>)

\* r'^\s*[a-z]\d+\s*$'
TagPattern == Cat(<<Star(reS), In(LowerSet), Plus(reD), Star(reS)>>)

\* r'((\d+\.)+\d*|\d+)': group 1 of the numeric pattern
NumberGroup == Alt(<<Cat(<<Plus(Cat(<<Plus(reD), Lit(".")>>)), Star(reD)>>), Plus(reD)>>)

\* r'^((\d+\.)+\d*|\d+)\s+.*$'
NumericPattern == Cat(<<NumberGroup, Plus(reS), Star(reAny)>>)

\* r'^[A-Z]\.\s+.*$'
AlphaPattern == Cat(<<In(UpperSet), Lit("."), Plus(reS), Star(reAny)>>)

\* r'^[...\*\-]\s*.*$'
BulletPattern == Cat(<<In({"*", "-"}), Star(reS), Star(reAny)>>)

\* r'^((\d+\.)+\d*|\d+|[A-Z])\s*,\s*.*$'
CommaPattern ==
    Cat(<<Alt(<<NumberGroup, In(UpperSet)>>), Star(reS), Lit(","), Star(reS), Star(reAny)>>)

\* r'^((\d+\.)+\d*|\d+|[A-Z]|[...\*\-])\s*.*$'
NewItemPattern ==
    Cat(<<Alt(<<NumberGroup, In(UpperSet), In({"*", "-"})>>), Star(reS), Star(reAny)>>)

\* (theorem|definition|remark|example|conjecture|lemma|proof); the source spells
\* the second keyword with the fi ligature, which no ASCII text contains
Keyword ==
    Alt(<<Lit("theorem"), Lit("remark"), Lit("example"), Lit("conjecture"), Lit("lemma"),
          Lit("proof")>>)

\* the three keys of keyword_patterns, in insertion order
KeywordPatterns ==
    << Cat(<<Keyword, Plus(reS), Plus(reD), Star(Cat(<<Lit("."), Plus(reD)>>)), Star(reS),
             Star(reAny)>>),
       Cat(<<Keyword, Star(reS), Lit(":"), Star(reS), Star(reAny)>>),
       Cat(<<Keyword, Star(reS)>>) >>

\* numeric_pattern.group(1): the span of group 1 in a match of NumericPattern.  The
\* group holds digits and dots only and whitespace follows it, so it ends at the
\* first whitespace of the text.
NumericGroup1(text) ==
    LET cut == Find(text, " ") IN SubSeq(text, 1, cut - 1)

(***************************************************************************)
(* Spans and rectangles.  A span is a record                               *)
(*   [text, font_size, is_bold, is_italic, bbox, page, line_y0, line_y1]   *)
(* with bbox = <<x0, y0, x1, y1>>; a page is a sequence of spans and       *)
(* pages_data a sequence of pages.                                         *)
(***************************************************************************)
Min(a, b) == IF a < b THEN a ELSE b

Max(a, b) == IF a > b THEN a ELSE b

\* Rect |= Rect for two non-empty finite rectangles
RectUnion(a, b) == <<Min(a[1], b[1]), Min(a[2], b[2]), Max(a[3], b[3]), Max(a[4], b[4])>>

RectIsEmpty(a) == a[1] >= a[3] \/ a[2] >= a[4]

\* Rect.intersects: neither is empty and the intersection is not empty
RectIntersects(a, b) ==
    /\ ~RectIsEmpty(a)
    /\ ~RectIsEmpty(b)
    /\ ~RectIsEmpty(<<Max(a[1], b[1]), Max(a[2], b[2]), Min(a[3], b[3]), Min(a[4], b[4])>>)

\* bool(Rect): false only for the all-zero rectangle
RectTruthy(a) == a # <<0, 0, 0, 0>>

(***************************************************************************)
(* _determine_heading_font_map.  heading_font_map is a dict: a sequence of *)
(* <<font size, level>> pairs in insertion order.                          *)
(***************************************************************************)
SIGNIFICANT_MIN == 1000

MIN_H1_H2_DIFF == 200

MIN_H2_H3_DIFF == 150

EXCLUDE_TOLERANCE == 10

\* d[k] = v on a dict
DictSet(d, k, v) ==
    IF \E i \in 1..Len(d) : d[i][1] = k
    THEN [i \in 1..Len(d) |-> IF d[i][1] = k THEN <<k, v>> ELSE d[i]]
    ELSE Append(d, <<k, v>>)

DictKeys(d) == {d[i][1] : i \in 1..Len(d)}

RECURSIVE SortedDesc(_)
\* sorted(list(set), reverse=True)
SortedDesc(set) ==
    IF set = {} THEN <<>>
    ELSE LET m == CHOOSE x \in set : \A y \in set : y <= x
         IN  <<m>> \o SortedDesc(set \ {m})

\* a significance test that leaves the size 10.0 itself out
SignificantAbove(sizes) == SortedDesc({s \in sizes : s > SIGNIFICANT_MIN})

\* [s for s in sorted_font_sizes if s >= 10.0]
SignificantFontSizes(sizes) == SortedDesc({s \in sizes : s >= SIGNIFICANT_MIN})

\* an exclusion test that asks for the very size of the title
IsExcludedExact(fs, exclude_font_size) ==
    exclude_font_size # NoSize /\ fs = exclude_font_size

\* exclude_font_size is not None and abs(fs - exclude_font_size) < 0.1
IsExcluded(fs, exclude_font_size) ==
    exclude_font_size # NoSize /\ Abs(fs - exclude_font_size) < EXCLUDE_TOLERANCE

\* one iteration of the main pass over significant_font_sizes
MainPassStep(st, fs, exclude_font_size) ==
    IF IsExcluded(fs, exclude_font_size) THEN st
    ELSE IF st.h1_fs = NoSize
         THEN [st EXCEPT !.h1_fs = fs, !.map = DictSet(st.map, fs, "H1")]
    ELSE IF st.h2_fs = NoSize /\ (st.h1_fs - fs) >= MIN_H1_H2_DIFF
         THEN [st EXCEPT !.h2_fs = fs, !.map = DictSet(st.map, fs, "H2")]
    ELSE IF st.h3_fs = NoSize /\ st.h2_fs # NoSize /\ (st.h2_fs - fs) >= MIN_H2_H3_DIFF
         THEN [st EXCEPT !.h3_fs = fs, !.map = DictSet(st.map, fs, "H3")]
    ELSE st

RECURSIVE MainPass(_, _, _, _)
\* the main pass, with its break once all three levels are assigned
MainPass(st, sig, k, exclude_font_size) ==
    IF k > Len(sig) THEN st
    ELSE IF st.h1_fs # NoSize /\ st.h2_fs # NoSize /\ st.h3_fs # NoSize THEN st
    ELSE MainPass(MainPassStep(st, sig[k], exclude_font_size), sig, k + 1, exclude_font_size)

\* the first element of a sequence that satisfies a test given as a set of indices
FirstIndex(idx) == IF idx = {} THEN 0 ELSE CHOOSE i \in idx : \A j \in idx : i <= j

\* fallback: H1 to the first non-excluded significant size
FallbackH1(st, sig, exclude_font_size) ==
    LET k == FirstIndex({i \in 1..Len(sig) : ~IsExcluded(sig[i], exclude_font_size)})
    IN  IF st.h1_fs = NoSize /\ k # 0
        THEN [st EXCEPT !.h1_fs = sig[k], !.map = DictSet(st.map, sig[k], "H1")]
        ELSE st

\* fallback: H2 to the first remaining size below H1, whatever the gap
FallbackH2(st, sig, exclude_font_size) ==
    LET k == FirstIndex({i \in 1..Len(sig) :
                 /\ sig[i] # st.h1_fs
                 /\ ~IsExcluded(sig[i], exclude_font_size)
                 /\ sig[i] < st.h1_fs})
    IN  IF st.h1_fs # NoSize /\ st.h2_fs = NoSize /\ k # 0
        THEN [st EXCEPT !.h2_fs = sig[k], !.map = DictSet(st.map, sig[k], "H2")]
        ELSE st

\* a fallback that takes the first remaining size without comparing it to H2
FallbackH3Unordered(st, sig, exclude_font_size) ==
    LET k == FirstIndex({i \in 1..Len(sig) :
                 /\ sig[i] # st.h1_fs
                 /\ ~IsExcluded(sig[i], exclude_font_size)})
    IN  IF st.h2_fs # NoSize /\ st.h3_fs = NoSize /\ k # 0
        THEN [st EXCEPT !.h3_fs = sig[k], !.map = DictSet(st.map, sig[k], "H3")]
        ELSE st

\* fallback: H3 to the first remaining size below H2, whatever the gap
FallbackH3(st, sig, exclude_font_size) ==
    LET k == FirstIndex({i \in 1..Len(sig) :
                 /\ sig[i] # st.h1_fs
                 /\ sig[i] # st.h2_fs
                 /\ ~IsExcluded(sig[i], exclude_font_size)
                 /\ sig[i] < st.h2_fs})
    IN  IF st.h2_fs # NoSize /\ st.h3_fs = NoSize /\ k # 0
        THEN [st EXCEPT !.h3_fs = sig[k], !.map = DictSet(st.map, sig[k], "H3")]
        ELSE st

\* the map the main pass and the three fallbacks build from the significant sizes
BuildFontMap(sig, exclude_font_size) ==
    FallbackH3(
        FallbackH2(
            FallbackH1(
                MainPass([h1_fs |-> NoSize, h2_fs |-> NoSize, h3_fs |-> NoSize, map |-> <<>>],
                         sig, 1, exclude_font_size),
                sig, exclude_font_size),
            sig, exclude_font_size),
        sig, exclude_font_size).map

\* the heading_font_map left by _determine_heading_font_map(exclude_font_size) on an
\* extractor whose map was old_map: unchanged on the two early returns, rebuilt otherwise
DetermineHeadingFontMap(sizes, old_map, exclude_font_size) ==
    IF sizes = {} THEN old_map
    ELSE IF {s \in sizes : s >= SIGNIFICANT_MIN} = {} THEN old_map
    ELSE BuildFontMap(SignificantFontSizes(sizes), exclude_font_size)

(***************************************************************************)
(* extract_text_elements: what the span source hands over for one document *)
(***************************************************************************)
\* round(span['size'], 2), for a size given in thousandths of a point
Round2(size) == (size + 5) \div 10

\* a document: [readable, pages]; fitz.open raises on one that is not readable,
\* and yields the pages, sequences of raw spans, of one that is
Unreadable == [readable |-> FALSE, pages |-> <<>>]

Readable(pages) == [readable |-> TRUE, pages |-> pages]

\* the dict appended for one raw span of page page_num (0-based)
ExtractSpan(raw, page_num) ==
    [text      |-> Strip(raw.text),
     font_size |-> Round2(raw.size),
     is_bold   |-> raw.bold,
     is_italic |-> raw.italic,
     bbox      |-> raw.bbox,
     page      |-> page_num + 1,
     line_y0   |-> raw.line_bbox[2],
     line_y1   |-> raw.line_bbox[4]]

\* all_pages_elements
ExtractPages(doc) ==
    [p \in 1..Len(doc.pages) |->
        [k \in 1..Len(doc.pages[p]) |-> ExtractSpan(doc.pages[p][k], p - 1)]]

\* the font sizes the extraction adds to unique_font_sizes
ExtractedFontSizes(doc) ==
    UNION {{Round2(doc.pages[p][k].size) : k \in 1..Len(doc.pages[p])}
           : p \in 1..Len(doc.pages)}

(***************************************************************************)
(* identify_document_title                                                 *)
(***************************************************************************)
UNTITLED == "Untitled Document"

NoTitle == [text |-> UNTITLED, font_size |-> NoSize, bbox |-> NoBBox]

RECURSIVE MaxFontSize(_, _, _)
\* the running maximum of lines 128-131, from 0
MaxFontSize(elements, k, best) ==
    IF k > Len(elements) THEN best
    ELSE MaxFontSize(elements, k + 1,
                     IF elements[k].font_size > best THEN elements[k].font_size ELSE best)

RECURSIVE SelectSeq2(_, _)
\* [e for e in elements if abs(e.font_size - max_font_size) < 0.1]
SelectSeq2(elements, max_font_size) ==
    IF Len(elements) = 0 THEN <<>>
    ELSE (IF Abs(elements[1].font_size - max_font_size) < EXCLUDE_TOLERANCE
          THEN <<elements[1]>> ELSE <<>>) \o SelectSeq2(Tail(elements), max_font_size)

RECURSIVE InsertByY0(_, _)
InsertByY0(sorted, e) ==
    IF Len(sorted) = 0 THEN <<e>>
    ELSE IF e.bbox[2] < sorted[1].bbox[2] THEN <<e>> \o sorted
    ELSE <<sorted[1]>> \o InsertByY0(Tail(sorted), e)

RECURSIVE SortByY0(_, _)
\* list.sort(key=bbox[1]): stable, ascending
SortByY0(elements, k) ==
    IF k = 0 THEN <<>> ELSE InsertByY0(SortByY0(elements, k - 1), elements[k])

RECURSIVE MergeTitle(_, _, _)
\* the loop of lines 150-159 over the sorted title elements
MergeTitle(elements, k, acc) ==
    IF k > Len(elements) THEN acc
    ELSE LET e == elements[k]
         IN  IF Len(acc.lines) = 0
                \/ 2 * (e.bbox[2] - acc.last_y_bottom) < 3 * e.font_size
             THEN MergeTitle(elements, k + 1,
                    [lines         |-> Append(acc.lines, e.text),
                     bbox          |-> IF acc.bbox = NoBBox THEN e.bbox
                                       ELSE RectUnion(acc.bbox, e.bbox),
                     last_y_bottom |-> e.bbox[4]])
             ELSE acc

\* lines 161-167: the triple returned for the merged title elements
TitleOf(merged, max_font_size) ==
    [text      |-> IF Strip(JoinSpace(merged.lines)) # ""
                   THEN Strip(JoinSpace(merged.lines)) ELSE UNTITLED,
     font_size |-> max_font_size,
     bbox      |-> IF merged.bbox # NoBBox /\ RectTruthy(merged.bbox)
                   THEN merged.bbox ELSE NoBBox]

\* lines 136-159: the elements of the maximum size, sorted and merged
MergedTitle(potential) ==
    MergeTitle(SortByY0(potential, Len(potential)), 1,
               [lines |-> <<>>, bbox |-> NoBBox, last_y_bottom |-> -100])

TitleForMax(first, max_font_size) ==
    IF max_font_size = 0 THEN NoTitle
    ELSE IF Len(SelectSeq2(first, max_font_size)) = 0 THEN NoTitle
    ELSE TitleOf(MergedTitle(SelectSeq2(first, max_font_size)), max_font_size)

RECURSIVE FirstPageWithSpans(_)
FirstPageWithSpans(pages) ==
    IF Len(pages) = 0 THEN <<>>
    ELSE IF Len(pages[1]) # 0 THEN pages[1]
    ELSE FirstPageWithSpans(Tail(pages))

\* a title detection that reads the first page that has spans
IdentifyDocumentTitleAnyPage(pages) ==
    IF Len(FirstPageWithSpans(pages)) = 0 THEN NoTitle
    ELSE TitleForMax(FirstPageWithSpans(pages), MaxFontSize(FirstPageWithSpans(pages), 1, 0))

\* (title text, title font size, title bbox)
IdentifyDocumentTitle(pages) ==
    IF Len(pages) = 0 THEN NoTitle
    ELSE IF Len(pages[1]) = 0 THEN NoTitle
    ELSE TitleForMax(pages[1], MaxFontSize(pages[1], 1, 0))

(***************************************************************************)
(* process_pdf, lines 465-479: the title's spans leave the first page.     *)
(* Rect.almost_contains is no method this model can read: its calls are    *)
(* the elements of NeedsAlmostContains, and each outcome is an input.      *)
(***************************************************************************)
\* the indices of first-page elements for which almost_contains is evaluated
NeedsAlmostContains(pages, title) ==
    IF title.bbox = NoBBox \/ Len(pages) = 0 THEN {}
    ELSE {k \in 1..Len(pages[1]) :
             /\ RectIntersects(pages[1][k].bbox, title.bbox)
             /\ Abs(pages[1][k].font_size - title.font_size) > EXCLUDE_TOLERANCE}

RECURSIVE FilterTitle(_, _, _, _)
\* filtered_elements of the first page; contained: the indices whose call returns True
FilterTitle(elements, k, title, contained) ==
    IF k > Len(elements) THEN <<>>
    ELSE (IF \/ ~RectIntersects(elements[k].bbox, title.bbox)
             \/ (/\ Abs(elements[k].font_size - title.font_size) > EXCLUDE_TOLERANCE
                 /\ k \notin contained)
          THEN <<elements[k]>> ELSE <<>>) \o FilterTitle(elements, k + 1, title, contained)

\* self.pages_data after the title filter
FilteredPagesData(pages, title, contained) ==
    IF title.text # "" /\ title.bbox # NoBBox
    THEN [p \in 1..Len(pages) |->
            IF p = 1 THEN FilterTitle(pages[1], 1, title, contained) ELSE pages[p]]
    ELSE pages

(***************************************************************************)
(* identify_headings, lines 174-236: boilerplate filter and line assembler *)
(***************************************************************************)
RECURSIVE PageBBox(_, _, _)
\* page_bbox: the union of every element's bbox
PageBBox(elements, k, acc) ==
    IF k > Len(elements) THEN acc
    ELSE PageBBox(elements, k + 1, RectUnion(acc, elements[k].bbox))

PageHeight(elements) ==
    LET b == PageBBox(elements, 1, elements[1].bbox) IN Max(0, b[4] - b[2])

\* element['line_y0'] < page_height * 0.15
IsTopOfPage(el, page_height) == 100 * el.line_y0 < 15 * page_height

\* element['line_y1'] > page_height * 0.85
IsBottomOfPage(el, page_height) == 100 * el.line_y1 > 85 * page_height

\* the five `continue` tests of lines 192-225; edge: is_top_of_page or is_bottom_of_page
IsBoilerplateText(el, text_lower, top, edge) ==
    \/ ReSearch(UrlPattern, text_lower)
    \/ /\ el.font_size < 1200
       /\ edge
       /\ \/ ReMatch(EmailLikePattern, text_lower)
          \/ ReSearch(AffiliationPattern, text_lower)
          \/ ReFullMatch(InitialsPattern, text_lower)
          \/ ReSearch(JournalPattern, text_lower)
          \/ ReSearch(AuthorPattern, text_lower)
    \/ /\ \/ (ReFullMatch(PureSymbolsPattern, el.text) /\ Len(el.text) < 10)
          \/ ReFullMatch(PageOfPattern, text_lower)
          \/ ReFullMatch(NumPageOfPattern, text_lower)
          \/ ReFullMatch(ClockPattern, text_lower)
          \/ ReFullMatch(DigitsPattern, Strip(el.text))
       /\ edge
    \/ /\ el.font_size < 1400
       /\ WordCount(el.text) < 5
       /\ Upper(Strip(el.text)) = "RESEARCH"
       /\ top
    \/ ReFullMatch(TagColonPattern, text_lower)
    \/ ReFullMatch(SymbolRunPattern, text_lower)
    \/ ReFullMatch(TagPattern, text_lower)

IsBoilerplate(el, page_height) ==
    IsBoilerplateText(el, Lower(el.text), IsTopOfPage(el, page_height),
                      IsTopOfPage(el, page_height) \/ IsBottomOfPage(el, page_height))

LINE_TOLERANCE == 10

\* lines 228-233 for one surviving element
AssembleStep(acc, el) ==
    IF Abs(el.line_y0 - acc.current_line_y0) > LINE_TOLERANCE
    THEN [lines_with_spans |-> Append(acc.lines_with_spans, acc.temp_line_spans),
          temp_line_spans  |-> <<el>>,
          current_line_y0  |-> el.line_y0]
    ELSE [acc EXCEPT !.temp_line_spans = Append(acc.temp_line_spans, el)]

RECURSIVE AssembleLoop(_, _, _, _)
AssembleLoop(elements, k, page_height, acc) ==
    IF k > Len(elements) THEN acc
    ELSE AssembleLoop(elements, k + 1, page_height,
                      IF IsBoilerplate(elements[k], page_height) THEN acc
                      ELSE AssembleStep(acc, elements[k]))

\* lines 235-236: the open line is added
CloseLines(acc) ==
    IF Len(acc.temp_line_spans) > 0
    THEN Append(acc.lines_with_spans, acc.temp_line_spans)
    ELSE acc.lines_with_spans

\* lines_with_spans of one page
AssembleLines(elements) ==
    IF Len(elements) = 0 THEN <<>>
    ELSE CloseLines(AssembleLoop(elements, 1, PageHeight(elements),
                        [lines_with_spans |-> <<>>, temp_line_spans |-> <<>>,
                         current_line_y0 |-> -100]))

\* text_lower as the loop over the page's lines finds it: line 190 sets it for every
\* element of the page, filtered or not, and nothing sets it afterwards
StaleTextLower(elements) == Lower(elements[Len(elements)].text)

(***************************************************************************)
(* identify_headings, lines 429-456: the outline normalization pass        *)
(***************************************************************************)
LevelRank(level) ==
    CASE level = "H1" -> 1 [] level = "H2" -> 2 [] level = "H3" -> 3 [] OTHER -> 4

\* a de-duplication that also asks for the same level
IsDuplicateSameLevel(final_outline, entry) ==
    /\ Len(final_outline) > 0
    /\ entry.text = final_outline[Len(final_outline)].text
    /\ entry.page = final_outline[Len(final_outline)].page
    /\ entry.level = final_outline[Len(final_outline)].level

\* line 437: last_entry_text / last_entry_page are those of the last kept entry
IsDuplicate(final_outline, entry) ==
    LET last_entry_text == IF Len(final_outline) = 0 THEN ""
                           ELSE final_outline[Len(final_outline)].text
        last_entry_page == IF Len(final_outline) = 0 THEN -1
                           ELSE final_outline[Len(final_outline)].page
    IN  entry.text = last_entry_text /\ entry.page = last_entry_page

\* a smoothing that demotes only within one page
SmoothLevelSamePage(final_outline, entry) ==
    IF Len(final_outline) = 0 THEN entry.level
    ELSE LET prev_entry == final_outline[Len(final_outline)]
         IN  IF /\ entry.page = prev_entry.page
                /\ LevelRank(entry.level) > LevelRank(prev_entry.level) + 1
                /\ prev_entry.level = "H1" /\ entry.level = "H3"
             THEN "H2" ELSE entry.level

\* lines 440-449: the level the entry is kept with
SmoothLevel(final_outline, entry) ==
    IF Len(final_outline) = 0 THEN entry.level
    ELSE LET prev_entry == final_outline[Len(final_outline)]
             current_entry_level_rank == LevelRank(entry.level)
             prev_level_rank == LevelRank(prev_entry.level)
         IN  IF entry.page = prev_entry.page /\ current_entry_level_rank < prev_level_rank
             THEN entry.level
             ELSE IF /\ current_entry_level_rank > prev_level_rank + 1
                     /\ prev_entry.level = "H1" /\ entry.level = "H3"
                  THEN "H2"
                  ELSE entry.level

RECURSIVE NormalizeLoop(_, _, _)
NormalizeLoop(outline, k, final_outline) ==
    IF k > Len(outline) THEN final_outline
    ELSE IF IsDuplicate(final_outline, outline[k])
         THEN NormalizeLoop(outline, k + 1, final_outline)
         ELSE NormalizeLoop(outline, k + 1,
                 Append(final_outline,
                        [outline[k] EXCEPT !.level = SmoothLevel(final_outline, outline[k])]))

RECURSIVE SmoothAll(_, _, _)
SmoothAll(outline, k, acc) ==
    IF k > Len(outline) THEN acc
    ELSE SmoothAll(outline, k + 1,
            Append(acc, [outline[k] EXCEPT !.level = SmoothLevel(acc, outline[k])]))

RECURSIVE DedupAll(_, _, _)
DedupAll(outline, k, acc) ==
    IF k > Len(outline) THEN acc
    ELSE DedupAll(outline, k + 1,
            IF IsDuplicate(acc, outline[k]) THEN acc ELSE Append(acc, outline[k]))

\* the two steps in the other order: every candidate smoothed against its
\* predecessor first, duplicates dropped afterwards
NormalizeSmoothFirst(outline) == DedupAll(SmoothAll(outline, 1, <<>>), 1, <<>>)

\* final_outline for the candidates of `outline`
NormalizeOutline(outline) == NormalizeLoop(outline, 1, <<>>)

(***************************************************************************)
(* identify_headings, lines 238-427: the rule engine, one line at a time   *)
(***************************************************************************)
\* [span['text'] for span in line_spans if span['text']]
RECURSIVE NonEmptyTexts(_)
NonEmptyTexts(line_spans) ==
    IF Len(line_spans) = 0 THEN <<>>
    ELSE (IF line_spans[1].text # "" THEN <<line_spans[1].text>> ELSE <<>>)
         \o NonEmptyTexts(Tail(line_spans))

FullLineText(line_spans) == Strip(JoinSpace(NonEmptyTexts(line_spans)))

\* Counter(line_font_sizes).most_common(1)[0][0]: the first size of the highest count
MostCommonFontSize(line_spans) ==
    LET n == Len(line_spans)
        count(k) == Cardinality({j \in 1..n : line_spans[j].font_size = line_spans[k].font_size})
        best == CHOOSE k \in 1..n :
                    /\ \A j \in 1..n : count(j) <= count(k)
                    /\ \A j \in 1..(k - 1) : count(j) < count(k)
    IN  IF n = 0 THEN 0 ELSE line_spans[best].font_size

AnyBold(line_spans) == \E k \in 1..Len(line_spans) : line_spans[k].is_bold

AnyItalic(line_spans) == \E k \in 1..Len(line_spans) : line_spans[k].is_italic

AllBold(line_spans) == \A k \in 1..Len(line_spans) : line_spans[k].is_bold

FONT_MATCH_TOLERANCE == 100

\* lines 259-262: the level of the first map entry within 1.0pt, or None
FontMapLevel(heading_font_map, most_common_font_size) ==
    LET k == FirstIndex({i \in 1..Len(heading_font_map) :
                 Abs(most_common_font_size - heading_font_map[i][1]) <= FONT_MATCH_TOLERANCE})
    IN  IF k = 0 THEN None ELSE heading_font_map[k][2]

\* lines 279-282: parts = group(1).split('.')
NumericDepthLevel(group1, level_candidate) ==
    LET parts == SplitDotCount(group1)
    IN  IF parts = 3 THEN "H3"
        ELSE IF parts = 2 THEN "H2"
        ELSE IF parts = 1 THEN "H1"
        ELSE level_candidate

\* lines 271-285
NumberingRule(st, full, numeric_pattern, alpha_pattern) ==
    IF ~(numeric_pattern \/ alpha_pattern) THEN st
    ELSE IF ReMatch(CommaPattern, st.text_to_classify)
         THEN [st EXCEPT !.is_potential_heading = FALSE]
    ELSE IF WordCount(st.text_to_classify) > 20
         THEN [st EXCEPT !.is_potential_heading = FALSE]
    ELSE IF numeric_pattern
         THEN [st EXCEPT !.is_potential_heading = TRUE,
                         !.level_candidate =
                             NumericDepthLevel(NumericGroup1(st.text_to_classify),
                                               st.level_candidate)]
    ELSE [st EXCEPT !.is_potential_heading = TRUE,
                    !.level_candidate =
                        IF st.level_candidate = None \/ LevelRank(st.level_candidate) > 1
                        THEN "H1" ELSE st.level_candidate]

\* lines 287-290
BulletRule(st, bullet_pattern) ==
    IF ~bullet_pattern THEN st
    ELSE [st EXCEPT !.is_potential_heading = TRUE,
                    !.level_candidate =
                        IF st.level_candidate = None \/ LevelRank(st.level_candidate) > 3
                        THEN "H3" ELSE st.level_candidate]

\* lines 303-312: the bold run read so far ends in ':' and nothing bold follows it
PrefixEnds(line_spans, span_idx, combined) ==
    /\ EndsWith(Strip(combined), ":")
    /\ \/ (span_idx + 1 <= Len(line_spans) /\ ~line_spans[span_idx + 1].is_bold)
       \/ span_idx = Len(line_spans)

RECURSIVE BoldPrefix(_, _, _)
\* the loop of lines 296-319 after span span_idx was appended: the text of the bold run
\* that ends in ':' and is followed by a non-bold span or by nothing, or None
BoldPrefix(line_spans, span_idx, combined) ==
    IF PrefixEnds(line_spans, span_idx, combined) THEN Strip(combined)
    ELSE IF span_idx + 1 > Len(line_spans) THEN None
    ELSE IF ~line_spans[span_idx + 1].is_bold THEN None
    ELSE BoldPrefix(line_spans, span_idx + 1, combined \o line_spans[span_idx + 1].text)

\* lines 312-317: the effect of a bold prefix on the flags
WithBoldPrefix(st, prefix, bullet_pattern) ==
    IF prefix = None THEN st
    ELSE [st EXCEPT !.bold_prefix_match = TRUE,
                    !.text_to_classify = prefix,
                    !.is_potential_heading = TRUE,
                    !.level_candidate =
                        IF bullet_pattern THEN "H3"
                        ELSE IF st.level_candidate = None
                                \/ LevelRank(st.level_candidate) > 2
                             THEN "H2" ELSE st.level_candidate]

\* lines 292-319
BoldPrefixRule(st, line_spans, bullet_pattern) ==
    IF Len(line_spans) > 0
    THEN IF line_spans[1].is_bold
         THEN WithBoldPrefix(st, BoldPrefix(line_spans, 1, line_spans[1].text), bullet_pattern)
         ELSE st
    ELSE st

\* lines 323-332, for a line whose first ':' is at position colon (0: none)
ColonSplitAt(st, full, colon) ==
    IF /\ ~st.is_potential_heading
       /\ colon # 0
       /\ WordCount(Strip(SubSeq(full, 1, colon - 1))) < 10
       /\ Len(full) > colon
       /\ ~ReMatch(NewItemPattern, Strip(SubSeq(full, colon + 1, Len(full))))
    THEN [st EXCEPT !.text_colon_match = TRUE,
                    !.is_potential_heading = TRUE,
                    !.level_candidate = "H3",
                    !.text_to_classify = Strip(SubSeq(full, 1, colon - 1)) \o ":"]
    ELSE st

\* lines 321-332
ColonSplitRule(st, full) == ColonSplitAt(st, full, Find(full, ":"))

\* lines 334-348; text_lower is the variable of line 190
KeywordRule(st, full, text_lower, any_bold_in_line, any_italic_in_line) ==
    IF /\ ~st.is_potential_heading
       /\ \E k \in 1..Len(KeywordPatterns) : ReFullMatch(KeywordPatterns[k], text_lower)
       /\ (any_bold_in_line \/ any_italic_in_line \/ WordCount(full) < 15)
    THEN [st EXCEPT !.keyword_match = TRUE,
                    !.is_potential_heading = TRUE,
                    !.level_candidate = "H3",
                    !.text_to_classify = full]
    ELSE st

\* lines 360-369: the next line continues the bullet's paragraph
IsContinuation(line_spans, next_line_spans, most_common_font_size) ==
    /\ next_line_spans[1].line_y0 - line_spans[Len(line_spans)].bbox[4] < most_common_font_size
    /\ ~AnyBold(next_line_spans)
    /\ ~ReMatch(NewItemPattern, FullLineText(next_line_spans))

\* lines 356-369: the demotion of an H3 bullet candidate
BulletDemotes(st, lines_with_spans, i, most_common_font_size) ==
    \/ Len(st.text_to_classify) > 60
    \/ /\ i + 1 <= Len(lines_with_spans)
       /\ IsContinuation(lines_with_spans[i], lines_with_spans[i + 1], most_common_font_size)

\* lines 371-383, on the flag iph the bullet test left
StrictFilter(st, f, iph) ==
    IF st.bold_prefix_match \/ st.text_colon_match \/ st.keyword_match THEN iph
    ELSE /\ iph
         /\ ~(/\ ~f.any_bold_in_line
              /\ ~(f.numeric_pattern \/ f.alpha_pattern \/ f.bullet_pattern)
              /\ f.most_common_font_size < 1200)
         /\ ~(/\ EndsWith(st.text_to_classify, ".")
              /\ ~(f.numeric_pattern \/ f.alpha_pattern)
              /\ f.most_common_font_size < 1400
              /\ ~f.any_bold_in_line)

\* lines 355-383
AcceptanceFilter(st, lines_with_spans, i, f) ==
    IF ~st.is_potential_heading THEN st
    ELSE [st EXCEPT !.is_potential_heading =
             StrictFilter(st, f,
                 ~(/\ f.bullet_pattern
                   /\ st.level_candidate = "H3"
                   /\ BulletDemotes(st, lines_with_spans, i, f.most_common_font_size)))]

RECURSIVE BoldSegment(_, _)
\* lines 405-411: the spans of the leading bold run
BoldSegment(line_spans, span_idx) ==
    IF span_idx > Len(line_spans) \/ ~line_spans[span_idx].is_bold THEN <<>>
    ELSE <<line_spans[span_idx].text>> \o BoldSegment(line_spans, span_idx + 1)

\* lines 403-420: a line that starts with a bold run and goes on in plain text
BoldLead(st, line_spans, segment, bold_segment_text) ==
    IF /\ line_spans[1].is_bold
       /\ Len(bold_segment_text) > 0
       /\ Len(segment) + 1 <= Len(line_spans)
       /\ WordCount(bold_segment_text) < 10
       /\ (~EndsWith(Strip(bold_segment_text), ".") \/ Len(bold_segment_text) < 30)
    THEN [st EXCEPT !.is_potential_heading = TRUE,
                    !.level_candidate = "H3",
                    !.text_to_classify = Strip(bold_segment_text)]
    ELSE st

\* lines 385-420
AllBoldFallback(st, line_spans, f) ==
    IF st.is_potential_heading \/ ~f.any_bold_in_line THEN st
    ELSE IF f.all_spans_bold
         THEN IF \/ (Len(f.full_line_text) < 150 /\ ~EndsWith(f.full_line_text, "."))
                 \/ (Len(f.full_line_text) < 50 /\ EndsWith(f.full_line_text, "."))
              THEN [st EXCEPT !.is_potential_heading = TRUE, !.level_candidate = "H3"]
              ELSE st
    ELSE IF st.bold_prefix_match THEN st
    ELSE BoldLead(st, line_spans, BoldSegment(line_spans, 1),
                  Concat(BoldSegment(line_spans, 1)))

\* an append that asks only for the heading flag
ShouldEmitAnyLevel(st) == st.is_potential_heading

\* line 422
ShouldEmit(st) == st.is_potential_heading /\ st.level_candidate # None

\* lines 251-257 and 267-269, for a line of the text full
FactsOf(line_spans, full) ==
    [full_line_text        |-> full,
     most_common_font_size |-> MostCommonFontSize(line_spans),
     any_bold_in_line      |-> AnyBold(line_spans),
     any_italic_in_line    |-> AnyItalic(line_spans),
     all_spans_bold        |-> AllBold(line_spans),
     numeric_pattern       |-> ReFullMatch(NumericPattern, full),
     alpha_pattern         |-> ReFullMatch(AlphaPattern, full),
     bullet_pattern        |-> ReFullMatch(BulletPattern, full)]

\* what lines 244-269 compute of a line
LineFacts(line_spans) == FactsOf(line_spans, FullLineText(line_spans))

\* lines 259-265: the flags the font map gives a line
FontMapRule(f, level) ==
    [level_candidate      |-> level,
     is_potential_heading |-> level # None,
     text_to_classify     |-> f.full_line_text,
     bold_prefix_match    |-> FALSE,
     text_colon_match     |-> FALSE,
     keyword_match        |-> FALSE]

\* the rules of lines 259-420 in the order of the code, on the facts f of line i
ApplyRules(lines_with_spans, i, heading_font_map, text_lower, f) ==
    AllBoldFallback(
        AcceptanceFilter(
            KeywordRule(
                ColonSplitRule(
                    BoldPrefixRule(
                        BulletRule(
                            NumberingRule(
                                FontMapRule(f, FontMapLevel(heading_font_map,
                                                            f.most_common_font_size)),
                                f.full_line_text, f.numeric_pattern, f.alpha_pattern),
                            f.bullet_pattern),
                        lines_with_spans[i], f.bullet_pattern),
                    f.full_line_text),
                f.full_line_text, text_lower, f.any_bold_in_line, f.any_italic_in_line),
            lines_with_spans, i, f),
        lines_with_spans[i], f)

\* the flags of line i after every rule
ClassifyLine(lines_with_spans, i, heading_font_map, text_lower) ==
    ApplyRules(lines_with_spans, i, heading_font_map, text_lower,
               LineFacts(lines_with_spans[i]))

\* lines 248-249 and 422-427: what line i adds to the outline
LineEntries(line_spans, st) ==
    IF FullLineText(line_spans) # "" /\ ShouldEmit(st)
    THEN <<[level |-> st.level_candidate,
            text  |-> st.text_to_classify,
            page  |-> line_spans[1].page]>>
    ELSE <<>>

RECURSIVE PageCandidates(_, _, _, _)
\* the entries the loop of line 238 appends for one page
PageCandidates(lines_with_spans, i, heading_font_map, text_lower) ==
    IF i > Len(lines_with_spans) THEN <<>>
    ELSE LineEntries(lines_with_spans[i],
                     ClassifyLine(lines_with_spans, i, heading_font_map, text_lower))
         \o PageCandidates(lines_with_spans, i + 1, heading_font_map, text_lower)

RECURSIVE OutlineCandidates(_, _, _)
\* `outline` before normalization: the candidates of every page, in page order
OutlineCandidates(pages, p, heading_font_map) ==
    IF p > Len(pages) THEN <<>>
    ELSE (IF Len(pages[p]) = 0 THEN <<>>
          ELSE PageCandidates(AssembleLines(pages[p]), 1, heading_font_map,
                              StaleTextLower(pages[p])))
         \o OutlineCandidates(pages, p + 1, heading_font_map)

(***************************************************************************)
(* process_pdf                                                             *)
(***************************************************************************)
\* the extractor's fields after extract_text_elements(doc)
AfterExtract(ext, doc) ==
    IF ~doc.readable THEN ext
    ELSE [ext EXCEPT !.pages_data = ExtractPages(doc),
                     !.unique_font_sizes = ext.unique_font_sizes \cup ExtractedFontSizes(doc)]

\* lines 429-456 and 486-489: what process_pdf leaves and returns
ProcessResult(unique_font_sizes, t, pages, map, candidates) ==
    [ext   |-> [pages_data        |-> pages,
                unique_font_sizes |-> unique_font_sizes,
                heading_font_map  |-> map],
     title |-> t,
     outline |-> candidates,
     final_outline |-> NormalizeOutline(candidates)]

\* line 484: identify_headings on the filtered pages and the new map
WithFontMap(unique_font_sizes, t, pages, map) ==
    ProcessResult(unique_font_sizes, t, pages, map, OutlineCandidates(pages, 1, map))

\* lines 465-481: the title filter, then _determine_heading_font_map
WithTitle(e1, t, contained) ==
    WithFontMap(e1.unique_font_sizes, t,
                FilteredPagesData(e1.pages_data, t, contained),
                DetermineHeadingFontMap(e1.unique_font_sizes, e1.heading_font_map,
                                        t.font_size))

\* the extractor's fields and the locals of identify_headings after process_pdf(doc)
\* returns; contained: the first-page elements whose almost_contains call returns True
ProcessPdf(ext, doc, contained) ==
    WithTitle(AfterExtract(ext, doc),
              IdentifyDocumentTitle(AfterExtract(ext, doc).pages_data), contained)

\* PDFOutlineExtractor()
NewExtractor == [pages_data |-> <<>>, unique_font_sizes |-> {}, heading_font_map |-> <<>>]

(***************************************************************************)
(* State                                                                   *)
(***************************************************************************)
VARIABLES
    input_dir,          \* the input directory: [exists, files], files a sequence of
                        \* [name, doc] in the order os.listdir returns them
    pdf_files,          \* main: the names of the files still to process
    output_dir,         \* the artifacts written: a set of [name, source, complete, data]
    main_pc,            \* main: "scan", "loop", "done" or "crashed"
    pages_data,         \* extractor.pages_data
    unique_font_sizes,  \* extractor.unique_font_sizes
    heading_font_map,   \* extractor.heading_font_map
    title,              \* the last result of identify_document_title
    outline,            \* identify_headings: the candidates before normalization
    final_outline,      \* identify_headings: the outline returned
    exclude_font_size,  \* the argument of the last _determine_heading_font_map call
    last_doc,           \* the document handed to the last process_pdf call
    call,               \* the last call: "none", "returned" or "raised"
    calls               \* process_pdf calls made so far

vars == <<input_dir, pdf_files, output_dir, main_pc, pages_data, unique_font_sizes,
          heading_font_map, title, outline, final_outline, exclude_font_size,
          last_doc, call, calls>>

mainVars == <<input_dir, pdf_files, output_dir, main_pc>>

Extractor ==
    [pages_data |-> pages_data, unique_font_sizes |-> unique_font_sizes,
     heading_font_map |-> heading_font_map]

\* a fresh extractor and no call made
FreshExtractor ==
    /\ pages_data = <<>>
    /\ heading_font_map = <<>>
    /\ title = NoTitle
    /\ final_outline = <<>>
    /\ exclude_font_size = NoSize
    /\ last_doc = Unreadable
    /\ call = "none"
    /\ calls = 0

NoBatch ==
    /\ input_dir = [exists |-> TRUE, files |-> <<>>]
    /\ pdf_files = <<>>
    /\ output_dir = {}
    /\ main_pc = "done"

(***************************************************************************)
(* The outline normalization pass on its own                               *)
(***************************************************************************)
MaxOutline == 3

NumPages == 2

NumTexts == 2

TextOf(i) == CASE i = 1 -> "Intro" [] i = 2 -> "Scope" [] OTHER -> "Result:"

Levels == {"H1", "H2", "H3"}

Candidates ==
    [level : Levels, text : {TextOf(i) : i \in 1..NumTexts}, page : 1..NumPages]

\* candidates come in reading order: pages never decrease
OutlineInputs ==
    UNION {{o \in [1..n -> Candidates] : \A k \in 1..(n - 1) : o[k].page <= o[k + 1].page}
           : n \in 0..MaxOutline}

InitNorm ==
    /\ NoBatch
    /\ FreshExtractor
    /\ unique_font_sizes = {}
    /\ outline \in OutlineInputs

Normalize ==
    /\ call = "none"
    /\ final_outline' = NormalizeOutline(outline)
    /\ call' = "returned"
    /\ UNCHANGED <<mainVars, pages_data, unique_font_sizes, heading_font_map, title, outline, exclude_font_size, last_doc, calls>>

NextNorm == Normalize

SpecNorm == InitNorm /\ [][NextNorm]_vars

\* C3 as stated: where no candidate is dropped, an H3 candidate that directly follows
\* a kept H1 is returned as H2 when both are on one page and as H3 when they are not.
C3_DemotedOnSamePageOnly ==
    (call = "returned" /\ Len(final_outline) = Len(outline)) =>
        \A k \in 2..Len(outline) :
            (final_outline[k - 1].level = "H1" /\ outline[k].level = "H3") =>
                final_outline[k].level =
                    IF outline[k].page = final_outline[k - 1].page THEN "H2" ELSE "H3"

\* C3 amended: where no candidate is dropped, an H3 candidate that directly follows a
\* kept H1 is returned as H2, on the same page and on a later page alike.
C3_DemotedOnAnyPage ==
    (call = "returned" /\ Len(final_outline) = Len(outline)) =>
        \A k \in 2..Len(outline) :
            (final_outline[k - 1].level = "H1" /\ outline[k].level = "H3") =>
                final_outline[k].level = "H2"

C3_Witness ==
    /\ call = "returned"
    /\ Len(outline) = 2
    /\ Len(final_outline) = 2
    /\ outline[1].level = "H1" /\ outline[1].page = 1
    /\ outline[2].level = "H3" /\ outline[2].page = 2
    /\ final_outline[2].level = "H2"

\* C4: the normalization pass applied to the outline it returned returns that
\* outline again, entry for entry.
C4_NormalizeIdempotent ==
    call = "returned" => NormalizeOutline(final_outline) = final_outline

C4_Witness ==
    /\ call = "returned"
    /\ Len(final_outline) >= 2
    /\ Len(final_outline) < Len(outline)
    /\ \E k \in 1..Len(final_outline) : final_outline[k].level \notin {outline[j].level : j \in 1..Len(outline)}

\* C5: the outline returned never holds two adjacent entries with the same
\* (text, page), whatever their levels.
C5_NoAdjacentDuplicate ==
    call = "returned" =>
        \A k \in 1..(Len(final_outline) - 1) :
            ~(/\ final_outline[k].text = final_outline[k + 1].text
              /\ final_outline[k].page = final_outline[k + 1].page)

C5_Witness ==
    /\ call = "returned"
    /\ Len(outline) = 2
    /\ outline[1].text = outline[2].text
    /\ outline[1].page = outline[2].page
    /\ outline[1].level # outline[2].level
    /\ Len(final_outline) = 1

(***************************************************************************)
(* _determine_heading_font_map on its own                                  *)
(***************************************************************************)
NumFontSizes == 17

MaxFontSizes == 4

\* the font sizes of the grid: 9.50, 9.55, 10.00, 10.05, 10.50, ...
FontSizeOf(i) == 950 + (i \div 2) * 50 + (i % 2) * 5

FontSizes == {FontSizeOf(i) : i \in 0..(NumFontSizes - 1)}

InitFont ==
    /\ NoBatch
    /\ FreshExtractor
    /\ outline = <<>>
    /\ unique_font_sizes \in {f \in SUBSET FontSizes : Cardinality(f) <= MaxFontSizes}

DetermineMap(ex) ==
    /\ call = "none"
    /\ heading_font_map' = DetermineHeadingFontMap(unique_font_sizes, heading_font_map, ex)
    /\ exclude_font_size' = ex
    /\ call' = "returned"
    /\ UNCHANGED <<mainVars, pages_data, unique_font_sizes, title, outline, final_outline,
                   last_doc, calls>>

NextFont == \E ex \in FontSizes \cup {NoSize} : DetermineMap(ex)

SpecFont == InitFont /\ [][NextFont]_vars

\* C6: every level is mapped from at most one size, and the mapped sizes fall
\* strictly with the level: size of H1 > size of H2 > size of H3.
C6_LevelsStrictlyDecreasing ==
    \A i, j \in 1..Len(heading_font_map) :
        /\ (i # j => heading_font_map[i][2] # heading_font_map[j][2])
        /\ (LevelRank(heading_font_map[i][2]) < LevelRank(heading_font_map[j][2])
               => heading_font_map[i][1] > heading_font_map[j][1])

\* all three levels assigned, H3 by the fallback, with a size excluded
C6_Witness ==
    /\ call = "returned"
    /\ exclude_font_size \in unique_font_sizes
    /\ Len(heading_font_map) = 3
    /\ heading_font_map[3][2] = "H3"
    /\ heading_font_map[2][1] - heading_font_map[3][1] < MIN_H2_H3_DIFF

(***************************************************************************)
(* Documents: what the span source yields for the files of a batch         *)
(***************************************************************************)
NumDocSpans == 3

MaxPages == 2

MaxFirstPageSpans == 2

MaxLaterPageSpans == 1

\* the raw span of template i set as line `slot` of its page: lines are 12pt apart
\* and 15pt high, so the boxes of neighbouring lines overlap
DocSpan(i, slot) ==
    LET y0 == 10000 + (slot - 1) * 1200
        box == <<7200, y0, 50000, y0 + 1500>>
        t == CASE i = 1 -> [text |-> "Intro", size |-> 14000, bold |-> FALSE]
               [] i = 2 -> [text |-> " Scope", size |-> 14046, bold |-> FALSE]
               [] i = 3 -> [text |-> "1.2 Method", size |-> 12000, bold |-> TRUE]
               [] OTHER -> [text |-> "Body text.", size |-> 9500, bold |-> FALSE]
    IN  [text |-> t.text, size |-> t.size, bold |-> t.bold, italic |-> FALSE,
         bbox |-> box, line_bbox |-> box]

DocPages(max) ==
    UNION {{[k \in 1..n |-> DocSpan(c[k], k)] : c \in [1..n -> 1..NumDocSpans]} : n \in 0..max}

\* the page sequences of up to max_pages pages
DocPageSeqs(max_pages) ==
    UNION {{d \in [1..n -> DocPages(MaxFirstPageSpans)] :
               \A p \in 2..n : d[p] \in DocPages(MaxLaterPageSpans)} : n \in 0..max_pages}

\* the readable documents of up to max_pages pages
Docs(max_pages) == {Readable(d) : d \in DocPageSeqs(max_pages)}

(***************************************************************************)
(* One extractor, process_pdf called on it again and again                 *)
(***************************************************************************)
MaxCalls == 2

InitExtractor ==
    /\ NoBatch
    /\ FreshExtractor
    /\ unique_font_sizes = {}
    /\ outline = <<>>

\* the almost_contains calls of line 474 for the title t
CallsForTitle(pages, t) ==
    IF t.text # "" /\ t.bbox # NoBBox THEN NeedsAlmostContains(pages, t) ELSE {}

\* the almost_contains calls process_pdf(doc) makes on the extractor ext
AlmostContainsCalls(ext, doc) ==
    CallsForTitle(AfterExtract(ext, doc).pages_data,
                  IdentifyDocumentTitle(AfterExtract(ext, doc).pages_data))

\* the extractor and the locals of process_pdf take the values of r
Returned(r, doc) ==
    /\ pages_data' = r.ext.pages_data
    /\ unique_font_sizes' = r.ext.unique_font_sizes
    /\ heading_font_map' = r.ext.heading_font_map
    /\ title' = r.title
    /\ exclude_font_size' = r.title.font_size
    /\ outline' = r.outline
    /\ final_outline' = r.final_outline
    /\ last_doc' = doc
    /\ call' = "returned"
    /\ calls' = calls + 1

\* process_pdf(doc) returns
ProcessReturns(doc, contained) == Returned(ProcessPdf(Extractor, doc, contained), doc)

\* the extractor e1 is left as extract_text_elements made it
Raised(e1, doc) ==
    /\ pages_data' = e1.pages_data
    /\ unique_font_sizes' = e1.unique_font_sizes
    /\ title' = IdentifyDocumentTitle(e1.pages_data)
    /\ last_doc' = doc
    /\ call' = "raised"
    /\ calls' = calls + 1
    /\ UNCHANGED <<heading_font_map, exclude_font_size, outline, final_outline>>

\* process_pdf(doc) raises at line 474: the title filter is abandoned, so pages_data
\* stays as extracted and the map is not rebuilt
ProcessRaises(doc) ==
    /\ AlmostContainsCalls(Extractor, doc) # {}
    /\ Raised(AfterExtract(Extractor, doc), doc)

CallReturns ==
    /\ calls < MaxCalls
    /\ \E doc \in Docs(MaxPages) \cup {Unreadable} :
         \E contained \in SUBSET AlmostContainsCalls(Extractor, doc) : ProcessReturns(doc, contained)
    /\ UNCHANGED mainVars

CallRaises ==
    /\ calls < MaxCalls
    /\ \E doc \in Docs(MaxPages) \cup {Unreadable} : ProcessRaises(doc)
    /\ UNCHANGED mainVars

NextExtractor == CallReturns \/ CallRaises

SpecExtractor == InitExtractor /\ [][NextExtractor]_vars

(***************************************************************************)
(* Claims about process_pdf                                                *)
(***************************************************************************)
\* the last call returned for a readable document with no page or an empty first page
EmptyFirstPage ==
    /\ call = "returned"
    /\ last_doc.readable
    /\ (Len(last_doc.pages) = 0 \/ Len(last_doc.pages[1]) = 0)

\* C2 as stated: a document with no pages or with no span on its first page gets the
\* title "Untitled Document" and an empty outline, whatever its later pages hold
C2_UntitledAndEmptyOutline ==
    EmptyFirstPage => title.text = UNTITLED /\ final_outline = <<>>

\* C2 as amended: a document with no pages or with no span on its first page gets the
\* title "Untitled Document", and its outline is empty when no page holds a span
C2_UntitledOnEmptyFirstPage ==
    EmptyFirstPage =>
        /\ title.text = UNTITLED
        /\ (\A p \in 1..Len(last_doc.pages) : Len(last_doc.pages[p]) = 0)
              => final_outline = <<>>

\* process_pdf returned for a document whose first page is empty and whose second
\* page yields a heading
C2_Witness ==
    /\ EmptyFirstPage
    /\ Len(last_doc.pages) = 2
    /\ Len(last_doc.pages[2]) > 0
    /\ title.text = UNTITLED
    /\ final_outline # <<>>

\* C7: after process_pdf returns, also on an extractor used before, no key of
\* heading_font_map is less than 0.1pt away from the font size of the detected title
C7_TitleSizeNotInMap ==
    (call = "returned" /\ title.font_size # NoSize) =>
        \A k \in DictKeys(heading_font_map) : Abs(k - title.font_size) >= EXCLUDE_TOLERANCE

\* the second call on one extractor returned with a title and a non-empty map, and a
\* size less than 0.1pt from the title's, other than the title's, was in the font-size set
C7_Witness ==
    /\ call = "returned"
    /\ calls = 2
    /\ title.font_size # NoSize
    /\ heading_font_map # <<>>
    /\ \E fs \in unique_font_sizes :
          fs # title.font_size /\ Abs(fs - title.font_size) < EXCLUDE_TOLERANCE

(***************************************************************************)
(* main: the batch loop                                                    *)
(***************************************************************************)
MaxFiles == 2

FileNames == {"a.pdf", "b.PDF", "notes.txt"}

\* the documents of a batch: unreadable, or readable with at most one page
BatchDocs(max_pages) == {Unreadable} \cup Docs(max_pages)

\* the directory listings: up to max_files files of distinct names
Listings(max_files) ==
    UNION {{l \in [1..n -> [name : FileNames, doc : BatchDocs(1)]] :
               \A i, j \in 1..n : i # j => l[i].name # l[j].name} : n \in 0..max_files}

\* line 500: f.lower().endswith(".pdf")
IsPdfName(f) == Len(f) >= 4 /\ SubSeq(Lower(f), Len(f) - 3, Len(f)) = ".pdf"

RECURSIVE PdfFiles(_)
\* line 500: the names of the listing that pass the test, in listing order
PdfFiles(files) ==
    IF Len(files) = 0 THEN <<>>
    ELSE (IF IsPdfName(files[1].name) THEN <<files[1].name>> ELSE <<>>)
         \o PdfFiles(Tail(files))

RECURSIVE OutputName(_)
\* line 508: filename.replace(".pdf", ".json")
OutputName(filename) ==
    IF Len(filename) < 4 THEN filename
    ELSE IF SubSeq(filename, 1, 4) = ".pdf"
         THEN ".json" \o OutputName(SubSeq(filename, 5, Len(filename)))
    ELSE CharAt(filename, 1) \o OutputName(SubSeq(filename, 2, Len(filename)))

\* the document behind a name of the listing
FileDoc(filename) ==
    input_dir.files[CHOOSE k \in 1..Len(input_dir.files) :
                        input_dir.files[k].name = filename].doc

Init ==
    /\ input_dir \in {[exists |-> FALSE, files |-> <<>>]}
                     \cup {[exists |-> TRUE, files |-> l] : l \in Listings(MaxFiles)}
    /\ pdf_files = <<>>
    /\ output_dir = {}
    /\ main_pc = "scan"
    /\ FreshExtractor
    /\ unique_font_sizes = {}
    /\ outline = <<>>

\* line 500: os.listdir raises, the input directory is missing
ScanMissing ==
    /\ main_pc = "scan"
    /\ ~input_dir.exists
    /\ main_pc' = "crashed"
    /\ UNCHANGED <<input_dir, pdf_files, output_dir, pages_data, unique_font_sizes,
                   heading_font_map, title, outline, final_outline, exclude_font_size,
                   last_doc, call, calls>>

\* lines 502-504: no name passes the test, main returns
ScanEmpty ==
    /\ main_pc = "scan"
    /\ input_dir.exists
    /\ PdfFiles(input_dir.files) = <<>>
    /\ main_pc' = "done"
    /\ UNCHANGED <<input_dir, pdf_files, output_dir, pages_data, unique_font_sizes,
                   heading_font_map, title, outline, final_outline, exclude_font_size,
                   last_doc, call, calls>>

\* lines 500-506: the loop starts on the names that pass the test
ScanFound ==
    /\ main_pc = "scan"
    /\ input_dir.exists
    /\ PdfFiles(input_dir.files) # <<>>
    /\ pdf_files' = PdfFiles(input_dir.files)
    /\ main_pc' = "loop"
    /\ UNCHANGED <<input_dir, output_dir, pages_data, unique_font_sizes,
                   heading_font_map, title, outline, final_outline, exclude_font_size,
                   last_doc, call, calls>>

\* the loop goes on to the next name, or main ends
NextFile ==
    /\ pdf_files' = Tail(pdf_files)
    /\ main_pc' = IF Len(pdf_files) = 1 THEN "done" ELSE "loop"

\* lines 515-518: output_data is written to the path of the output name
Written(filename, r) ==
    output_dir' = {a \in output_dir : a.name # OutputName(filename)}
                  \cup {[name |-> OutputName(filename), source |-> filename,
                         complete |-> TRUE,
                         data |-> [title |-> r.title.text, outline |-> r.final_outline]]}

\* lines 512-518 for the value r of process_pdf on a new extractor
WriteResult(filename, doc, r) ==
    /\ Returned(r, doc)
    /\ Written(filename, r)

\* lines 519-522: the write fails and is logged; the open for writing, when it was
\* the step that failed, left the path alone (opened = FALSE), and left an empty or
\* half-written file there otherwise
WriteFailed(filename, doc, r, opened) ==
    /\ Returned(r, doc)
    /\ output_dir' = IF opened
                     THEN {a \in output_dir : a.name # OutputName(filename)}
                          \cup {[name |-> OutputName(filename), source |-> filename,
                                 complete |-> FALSE,
                                 data |-> [title |-> "", outline |-> <<>>]]}
                     ELSE output_dir

\* one iteration of the loop of line 506: process_pdf returns, the artifact is written
ProcessWritten ==
    /\ main_pc = "loop"
    /\ \E contained \in SUBSET AlmostContainsCalls(NewExtractor, FileDoc(pdf_files[1])) :
          WriteResult(pdf_files[1], FileDoc(pdf_files[1]),
                      ProcessPdf(NewExtractor, FileDoc(pdf_files[1]), contained))
    /\ NextFile
    /\ UNCHANGED input_dir

\* one iteration of the loop of line 506: process_pdf returns, the write fails
ProcessWriteFails ==
    /\ main_pc = "loop"
    /\ \E contained \in SUBSET AlmostContainsCalls(NewExtractor, FileDoc(pdf_files[1])) :
          \E opened \in BOOLEAN :
              WriteFailed(pdf_files[1], FileDoc(pdf_files[1]),
                          ProcessPdf(NewExtractor, FileDoc(pdf_files[1]), contained), opened)
    /\ NextFile
    /\ UNCHANGED input_dir

\* process_pdf raises at line 474 and nothing in main catches it
ProcessCrashes ==
    /\ main_pc = "loop"
    /\ AlmostContainsCalls(NewExtractor, FileDoc(pdf_files[1])) # {}
    /\ Raised(AfterExtract(NewExtractor, FileDoc(pdf_files[1])), FileDoc(pdf_files[1]))
    /\ main_pc' = "crashed"
    /\ UNCHANGED <<input_dir, pdf_files, output_dir>>

Next ==
    \/ ScanMissing
    \/ ScanEmpty
    \/ ScanFound
    \/ ProcessWritten
    \/ ProcessWriteFails
    \/ ProcessCrashes

Spec == Init /\ [][Next]_vars

\* the files of the listing that main takes for PDFs and the span source cannot open
UnreadablePdfs ==
    {k \in 1..Len(input_dir.files) :
        IsPdfName(input_dir.files[k].name) /\ ~input_dir.files[k].doc.readable}

\* C1: no artifact is written for a taken file that the span source cannot open, and
\* the loop goes on after such a file: main does not stop on it
C1_UnreadableSkipped ==
    /\ \A k \in UnreadablePdfs :
          \A a \in output_dir : a.source # input_dir.files[k].name
    /\ (main_pc = "crashed" /\ call # "none") => last_doc.readable

(***************************************************************************)
(* process_pdf on documents of one page: a title line and the lines under  *)
(* it, set apart so that no box meets the title's                          *)
(***************************************************************************)
NumHeadingSpans == 7

MaxHeadingLines == 3

\* the raw span of template i set as line `slot` of its page: lines are 20pt apart
\* and 12pt high
HeadingSpan(i, slot) ==
    LET y0 == 10000 + slot * 2000
        box == <<7200, y0, 50000, y0 + 1200>>
        t == CASE i = 0 -> [text |-> "Survey", size |-> 20000, bold |-> FALSE, italic |-> FALSE]
               [] i = 1 -> [text |-> "1. Introduction", size |-> 16000, bold |-> FALSE,
                            italic |-> FALSE]
               [] i = 2 -> [text |-> "1.2 Scope", size |-> 14000, bold |-> FALSE,
                            italic |-> FALSE]
               [] i = 3 -> [text |-> "1.2.3.4 Detail", size |-> 9500, bold |-> FALSE,
                            italic |-> FALSE]
               [] i = 4 -> [text |-> "Theorem 2.4 (Main result).", size |-> 9500,
                            bold |-> FALSE, italic |-> TRUE]
               [] i = 5 -> [text |-> "1.2.3 Data", size |-> 12000, bold |-> FALSE,
                            italic |-> FALSE]
               [] i = 6 -> [text |-> "2 Methods", size |-> 16000, bold |-> FALSE,
                            italic |-> FALSE]
               [] OTHER -> [text |-> "Body text.", size |-> 9500, bold |-> FALSE,
                            italic |-> FALSE]
    IN  [text |-> t.text, size |-> t.size, bold |-> t.bold, italic |-> t.italic,
         bbox |-> box, line_bbox |-> box]

\* the pages: the title line, then up to MaxHeadingLines lines
HeadingPages ==
    UNION {{[k \in 1..(n + 1) |-> IF k = 1 THEN HeadingSpan(0, 0) ELSE HeadingSpan(c[k - 1], k - 1)] :
               c \in [1..n -> 1..NumHeadingSpans]} : n \in 0..MaxHeadingLines}

HeadingDocs == {Readable(<<pg>>) : pg \in HeadingPages}

InitHeadings ==
    /\ NoBatch
    /\ FreshExtractor
    /\ unique_font_sizes = {}
    /\ outline = <<>>

\* process_pdf(doc) on the new extractor
ProcessHeadings ==
    /\ calls = 0
    /\ \E doc \in HeadingDocs :
         \E contained \in SUBSET AlmostContainsCalls(Extractor, doc) :
            ProcessReturns(doc, contained)
    /\ UNCHANGED mainVars

NextHeadings == ProcessHeadings

SpecHeadings == InitHeadings /\ [][NextHeadings]_vars

\* the lines identify_headings assembles from page p of pages_data
LinesOfPage(p) == IF Len(pages_data[p]) = 0 THEN <<>> ELSE AssembleLines(pages_data[p])

\* the number of numbers in a numeric prefix: the runs of digits before the first blank
NumericDepth(text) ==
    Cardinality({i \in 1..Len(NumericGroup1(text)) :
        /\ CharAt(text, i) \in Digit
        /\ (i = 1 \/ CharAt(text, i - 1) \notin Digit)})

DepthLevel(depth) == CASE depth = 1 -> "H1" [] depth = 2 -> "H2" [] depth = 3 -> "H3" [] OTHER -> None

\* the line is one the numbering rule takes for a heading, of a depth of at most three
IsNumberedLine(line_spans) ==
    /\ Len(line_spans) > 0
    /\ ReFullMatch(NumericPattern, FullLineText(line_spans))
    /\ ~ReMatch(CommaPattern, FullLineText(line_spans))
    /\ WordCount(FullLineText(line_spans)) <= 20
    /\ NumericDepth(FullLineText(line_spans)) \in 1..3

\* identify_headings appended an entry of this level for the line
Emitted(line_spans, level) ==
    \E k \in 1..Len(outline) :
        outline[k] = [level |-> level, text |-> FullLineText(line_spans),
                      page |-> line_spans[1].page]

\* C8: a line with a numeric prefix, no comma after it and at most 20 words is emitted
\* at the level of the prefix's depth: one number H1, two H2, three H3; so the line
\* "1. Introduction" comes out as level H1
C8_LevelFromNumericDepth ==
    call = "returned" =>
        \A p \in 1..Len(pages_data) : \A i \in 1..Len(LinesOfPage(p)) :
            IsNumberedLine(LinesOfPage(p)[i]) =>
                Emitted(LinesOfPage(p)[i],
                        DepthLevel(NumericDepth(FullLineText(LinesOfPage(p)[i]))))

\* the line opens with a theorem keyword and a numeric tag, is italic, and no rule
\* before the keyword rule takes it
IsPlainTheoremLine(line_spans) ==
    /\ Len(line_spans) > 0
    /\ ReFullMatch(KeywordPatterns[1], Lower(FullLineText(line_spans)))
    /\ AnyItalic(line_spans)
    /\ ~AnyBold(line_spans)
    /\ FontMapLevel(heading_font_map, MostCommonFontSize(line_spans)) = None
    /\ ~ReFullMatch(NumericPattern, FullLineText(line_spans))
    /\ ~ReFullMatch(AlphaPattern, FullLineText(line_spans))
    /\ ~ReFullMatch(BulletPattern, FullLineText(line_spans))
    /\ Find(FullLineText(line_spans), ":") = 0

\* C9: an italic line that opens with a theorem keyword and a numeric tag and that no
\* earlier rule takes is emitted as H3 with its full text, wherever it stands on its
\* page and whatever other spans the page holds
C9_TheoremLineIsH3 ==
    call = "returned" =>
        \A p \in 1..Len(pages_data) : \A i \in 1..Len(LinesOfPage(p)) :
            IsPlainTheoremLine(LinesOfPage(p)[i]) => Emitted(LinesOfPage(p)[i], "H3")

\* C10: every entry identify_headings appends, and every entry it returns, has a
\* level of H1, H2 or H3
C10_EveryEntryHasLevel ==
    /\ \A k \in 1..Len(outline) : outline[k].level \in Levels
    /\ \A k \in 1..Len(final_outline) : final_outline[k].level \in Levels

\* process_pdf returned a non-empty outline for a page with a line of a four-part
\* numeric prefix and no level from the font map, and the line is not in the outline
C10_Witness ==
    /\ call = "returned"
    /\ final_outline # <<>>
    /\ \E i \in 1..Len(LinesOfPage(1)) :
          /\ ReFullMatch(NumericPattern, FullLineText(LinesOfPage(1)[i]))
          /\ NumericDepth(FullLineText(LinesOfPage(1)[i])) = 4
          /\ FontMapLevel(heading_font_map, MostCommonFontSize(LinesOfPage(1)[i])) = None
          /\ \A k \in 1..Len(outline) : outline[k].text # FullLineText(LinesOfPage(1)[i])

(***************************************************************************)
(* main on a missing input directory                                       *)
(***************************************************************************)
\* C11: when the input directory does not exist, main ends cleanly, raising nothing,
\* and writes no artifact
C11_MissingInputCleanExit ==
    (~input_dir.exists /\ main_pc # "scan") => (main_pc = "done" /\ output_dir = {})

(***************************************************************************)
(* _determine_heading_font_map: when the map is left empty                 *)
(***************************************************************************)
\* the observed sizes of 10.0pt and more that the exclusion test lets through
NotExcludedSignificant ==
    {s \in unique_font_sizes : s >= SIGNIFICANT_MIN /\ ~IsExcluded(s, exclude_font_size)}

\* C12 as stated: with at least one observed size of 10.0pt or more, the map is not
\* empty after _determine_heading_font_map, whatever size was excluded
C12_MapNonEmpty ==
    (call = "returned" /\ \E s \in unique_font_sizes : s >= SIGNIFICANT_MIN)
        => Len(heading_font_map) > 0

\* C12: with at least one observed size of 10.0pt or more that is not within 0.1pt of
\* the excluded size, the map is not empty after _determine_heading_font_map
C12_MapNonEmptyUnlessAllExcluded ==
    (call = "returned" /\ NotExcludedSignificant # {}) => Len(heading_font_map) > 0

\* the largest observed size is excluded and the only other significant size, 10.0pt,
\* carries the map
C12_Witness ==
    /\ call = "returned"
    /\ exclude_font_size # NoSize
    /\ \E s \in unique_font_sizes : s > SIGNIFICANT_MIN /\ IsExcluded(s, exclude_font_size)
    /\ NotExcludedSignificant = {SIGNIFICANT_MIN}
    /\ heading_font_map = <<<<SIGNIFICANT_MIN, "H1">>>>

(***************************************************************************)
(* SpecBullets: process_pdf on pages of bulleted and bold-prefixed lines   *)
(***************************************************************************)
NumBulletLines == 6

MaxBulletLines == 3

\* the raw spans of template i set as line `slot` of its page, all of 9.5pt: lines are
\* 20pt apart and 12pt high, a line of two spans has the bold one first
BulletLine(i, slot) ==
    LET y0 == 10000 + slot * 2000
        line == <<7200, y0, 50000, y0 + 1200>>
        one(text, bold) ==
            <<[text |-> text, size |-> 9500, bold |-> bold, italic |-> FALSE,
               bbox |-> line, line_bbox |-> line]>>
        two(lead, rest) ==
            <<[text |-> lead, size |-> 9500, bold |-> TRUE, italic |-> FALSE,
               bbox |-> <<7200, y0, 40000, y0 + 1200>>, line_bbox |-> line],
              [text |-> rest, size |-> 9500, bold |-> FALSE, italic |-> FALSE,
               bbox |-> <<40500, y0, 50000, y0 + 1200>>, line_bbox |-> line]>>
    IN  CASE i = 1 -> two("* Note:", "see the text")
          [] i = 2 -> one("and it goes on", FALSE)
          [] i = 3 -> one("- a plain item", FALSE)
          [] i = 4 -> one("* Note:", TRUE)
          [] i = 5 -> two("Background:", "This paper studies")
          [] OTHER -> one("Body text.", FALSE)

RECURSIVE BulletSpans(_, _)
\* the spans of the lines c[1..n], set one below the other under the title line
BulletSpans(c, n) ==
    IF n = 0 THEN <<HeadingSpan(0, 0)>> ELSE BulletSpans(c, n - 1) \o BulletLine(c[n], n)

BulletDocs ==
    {Readable(<<BulletSpans(c, n)>>) :
        c \in [1..MaxBulletLines -> 1..NumBulletLines], n \in 0..MaxBulletLines}

\* process_pdf(doc) on the new extractor
ProcessBullets ==
    /\ calls = 0
    /\ \E doc \in BulletDocs :
         \E contained \in SUBSET AlmostContainsCalls(Extractor, doc) :
            ProcessReturns(doc, contained)
    /\ UNCHANGED mainVars

NextBullets == ProcessBullets

SpecBullets == InitHeadings /\ [][NextBullets]_vars

\* the text of the leading bold run the bold-prefix rule takes from the line, or None
BoldPrefixOf(line_spans) ==
    IF Len(line_spans) > 0 /\ line_spans[1].is_bold
    THEN BoldPrefix(line_spans, 1, line_spans[1].text)
    ELSE None

\* C13: a line on which the bold-prefix rule fires is emitted as a heading with the
\* bold run as its text, whether or not it is bullet-prefixed, longer than 60
\* characters or followed closely by a plain line that is no new item
C13_BoldPrefixLineEmitted ==
    call = "returned" =>
        \A p \in 1..Len(pages_data) :
            \A i \in 1..Len(LinesOfPage(p)) :
                BoldPrefixOf(LinesOfPage(p)[i]) # None =>
                    \E k \in 1..Len(outline) :
                        /\ outline[k].text = BoldPrefixOf(LinesOfPage(p)[i])
                        /\ outline[k].page = LinesOfPage(p)[i][1].page

\* C14: every line the line assembler puts into a page's line list is a non-empty
\* sequence of spans
C14_LinesNonEmpty ==
    call = "returned" =>
        \A p \in 1..Len(pages_data) :
            \A i \in 1..Len(LinesOfPage(p)) : Len(LinesOfPage(p)[i]) > 0

====
